---- MODULE Spec2Model ----
(***************************************************************************)
(* Model of craftRig's string-naming module (src/lib/naming.py).           *)
(*                                                                         *)
(* A Python str is a sequence of code points (naturals), so that ord/chr   *)
(* arithmetic, str.lower, str.upper and the character classes of the       *)
(* regular expressions are computed and not assumed.  The state machine    *)
(* draws an argument text, applies one function of the module to it and    *)
(* records what the call returned or raised.                               *)
(***************************************************************************)
EXTENDS Integers, Sequences, FiniteSets, TLC

(***************************************************************************)
(* Bounds of the model.                                                    *)
(***************************************************************************)
MaxLen == 4
MaxDigits == 2
\* calls made on one scene
MaxCalls == 3
MaxIndex == 2

(***************************************************************************)
(* Characters: ord() of the ASCII characters the module names.             *)
(***************************************************************************)
UpperLetters ==
    <<"A", "B", "C", "D", "E", "F", "G", "H", "I", "J", "K", "L", "M",
      "N", "O", "P", "Q", "R", "S", "T", "U", "V", "W", "X", "Y", "Z">>

LowerLetters ==
    <<"a", "b", "c", "d", "e", "f", "g", "h", "i", "j", "k", "l", "m",
      "n", "o", "p", "q", "r", "s", "t", "u", "v", "w", "x", "y", "z">>

DigitChars == <<"0", "1", "2", "3", "4", "5", "6", "7", "8", "9">>

Punctuation ==
    [c \in {" ", "+", "-", ".", "[", "]", "_"} |->
        CASE c = " " -> 32 [] c = "+" -> 43 [] c = "-" -> 45 [] c = "." -> 46
          [] c = "[" -> 91 [] c = "]" -> 93 [] c = "_" -> 95]

ord(c) ==
    IF \E i \in 1..26 : UpperLetters[i] = c
    THEN 64 + (CHOOSE i \in 1..26 : UpperLetters[i] = c)
    ELSE IF \E i \in 1..26 : LowerLetters[i] = c
    THEN 96 + (CHOOSE i \in 1..26 : LowerLetters[i] = c)
    ELSE IF \E i \in 1..10 : DigitChars[i] = c
    THEN 47 + (CHOOSE i \in 1..10 : DigitChars[i] = c)
    ELSE Punctuation[c]

\* A str literal, written as the tuple of its characters.
Str(cs) == [i \in 1..Len(cs) |-> ord(cs[i])]

\* the character classes [A-Z], [a-z], [0-9] and [A-Za-z]
Uppers == 65..90
Lowers == 97..122
Digits == 48..57
Alphas == Uppers \cup Lowers

IsUpper(c) == c \in Uppers
IsLower(c) == c \in Lowers
IsDigit(c) == c \in Digits
IsAlpha(c) == c \in Alphas
\* \s of the re module on ASCII text
IsSpace(c) == c \in (9..13) \cup (28..32)

\* str.lower / str.capitalize
lower(s) == [i \in 1..Len(s) |-> IF IsUpper(s[i]) THEN s[i] + 32 ELSE s[i]]

\* faulty variant: only the first character is changed
capitalize_first_only(s) ==
    [i \in 1..Len(s) |->
        IF i = 1 /\ IsLower(s[i]) THEN s[i] - 32 ELSE s[i]]

capitalize(s) ==
    [i \in 1..Len(s) |->
        IF i = 1
        THEN (IF IsLower(s[i]) THEN s[i] - 32 ELSE s[i])
        ELSE (IF IsUpper(s[i]) THEN s[i] + 32 ELSE s[i])]

\* text[a:b] with 0-based Python bounds 0 <= a <= b <= len(text)
Slice(s, a, b) == [i \in 1..(b - a) |-> s[a + i]]

\* faulty variant: the separator also follows the last word
RECURSIVE join_trailing(_, _)
join_trailing(sep, words) ==
    IF words = <<>> THEN <<>>
    ELSE words[1] \o sep \o join_trailing(sep, Tail(words))

\* sep.join(words)
RECURSIVE join(_, _)
join(sep, words) ==
    IF words = <<>> THEN <<>>
    ELSE IF Len(words) = 1 THEN words[1]
    ELSE words[1] \o sep \o join(sep, Tail(words))

\* End (1-based, inclusive) of the longest run of characters of a class
\* that starts at position i; i - 1 when text[i] is not in the class.
RECURSIVE RunEnd(_, _, _)
RunEnd(class, text, i) ==
    IF i <= Len(text) /\ text[i] \in class
    THEN RunEnd(class, text, i + 1)
    ELSE i - 1

(***************************************************************************)
(* split_text:                                                             *)
(*   re.findall(r'[A-Z]?[a-z]+|[A-Z]+(?=\s|$)|[0-9]+|[a-z]+'               *)
(*              r'|[A-Za-z]+(?=[_-])', text)                               *)
(* Each Alt operator gives the end of the match of one alternative at      *)
(* position i, or 0 when that alternative does not match there.            *)
(***************************************************************************)
\* [A-Z]?[a-z]+ : the optional capital is tried first, then without it
AltWord(text, i) ==
    IF IsUpper(text[i]) /\ i + 1 <= Len(text) /\ IsLower(text[i + 1])
    THEN RunEnd(Lowers, text, i + 1)
    ELSE IF IsLower(text[i]) THEN RunEnd(Lowers, text, i)
    ELSE 0

\* $ matches at the end of the text and before a final newline
AtDollar(text, e) ==
    e = Len(text) \/ (e = Len(text) - 1 /\ text[Len(text)] = 10)

\* [A-Z]+(?=\s|$) : the longest run of capitals, shortened by backtracking
\* until white space or the end follows
AltAcronym(text, i) ==
    LET ends == {e \in i..RunEnd(Uppers, text, i) :
                    AtDollar(text, e) \/ IsSpace(text[e + 1])}
    IN IF ends = {} THEN 0 ELSE CHOOSE e \in ends : \A f \in ends : f <= e

\* [0-9]+
AltDigits(text, i) ==
    IF IsDigit(text[i]) THEN RunEnd(Digits, text, i) ELSE 0

\* [a-z]+
AltLower(text, i) ==
    IF IsLower(text[i]) THEN RunEnd(Lowers, text, i) ELSE 0

\* faulty variant: the lookahead accepts '_' only, [A-Za-z]+(?=_)
AltBeforeUnderscore(text, i) ==
    LET ends == {e \in i..RunEnd(Alphas, text, i) :
                    e + 1 <= Len(text) /\ text[e + 1] = ord("_")}
    IN IF ends = {} THEN 0 ELSE CHOOSE e \in ends : \A f \in ends : f <= e

\* faulty variant: the delimiter is consumed, [A-Za-z]+[_-]
AltWithDelimiter(text, i) ==
    LET ends == {e \in i..RunEnd(Alphas, text, i) :
                    e + 1 <= Len(text) /\ text[e + 1] \in {ord("_"), ord("-")}}
    IN IF ends = {} THEN 0
       ELSE (CHOOSE e \in ends : \A f \in ends : f <= e) + 1

\* [A-Za-z]+(?=[_-]) : the longest run of letters, shortened by
\* backtracking until '_' or '-' follows
AltBeforeDelimiter(text, i) ==
    LET ends == {e \in i..RunEnd(Alphas, text, i) :
                    e + 1 <= Len(text) /\ text[e + 1] \in {ord("_"), ord("-")}}
    IN IF ends = {} THEN 0 ELSE CHOOSE e \in ends : \A f \in ends : f <= e

\* the first alternative that matches at i wins
TokenEnd(text, i) ==
    IF AltWord(text, i) # 0 THEN AltWord(text, i)
    ELSE IF AltAcronym(text, i) # 0 THEN AltAcronym(text, i)
    ELSE IF AltDigits(text, i) # 0 THEN AltDigits(text, i)
    ELSE IF AltLower(text, i) # 0 THEN AltLower(text, i)
    ELSE AltBeforeDelimiter(text, i)

\* findall: scan left to right, a match resumes the scan at its end, a
\* position where nothing matches is skipped
RECURSIVE FindTokens(_, _)
FindTokens(text, i) ==
    IF i > Len(text) THEN <<>>
    ELSE LET e == TokenEnd(text, i)
         IN IF e = 0 THEN FindTokens(text, i + 1)
            ELSE <<Slice(text, i - 1, e)>> \o FindTokens(text, e + 1)

split_text(text) == FindTokens(text, 1)

(***************************************************************************)
(* Case converters.  A call either returns a str or raises; Ret and Raise  *)
(* build the two outcomes.                                                 *)
(***************************************************************************)
Ret(v) == [raised |-> "none", value |-> v]
Raise(e) == [raised |-> e, value |-> <<>>]

RECURSIVE CapitalizeAll(_)
CapitalizeAll(words) ==
    IF words = <<>> THEN <<>>
    ELSE capitalize(words[1]) \o CapitalizeAll(Tail(words))

\* faulty variant: lowers only the first character of each word
LowerEachFirstOnly(words) ==
    [i \in 1..Len(words) |->
        [j \in 1..Len(words[i]) |->
            IF j = 1 /\ IsUpper(words[i][j]) THEN words[i][j] + 32
            ELSE words[i][j]]]

LowerEach(words) == [i \in 1..Len(words) |-> lower(words[i])]

to_camel_case(text) ==
    LET splited_text == split_text(text)
    IN IF splited_text = <<>> THEN Raise("IndexError")
       ELSE Ret(lower(splited_text[1]) \o CapitalizeAll(Tail(splited_text)))

to_pascal_case(text) == Ret(CapitalizeAll(split_text(text)))

\* faulty variant: re.sub(r'\d+', '', text, count=1)
remove_numbers_once(text) ==
    LET starts == {i \in 1..Len(text) : IsDigit(text[i])}
    IN IF starts = {} THEN text
       ELSE LET i == CHOOSE k \in starts : \A j \in starts : k <= j
            IN Slice(text, 0, i - 1)
                 \o Slice(text, RunEnd(Digits, text, i), Len(text))

\* re.sub(r'\d+', '', text)
remove_numbers(text) == SelectSeq(text, LAMBDA c : ~IsDigit(c))

RECURSIVE to_snake_case(_, _)
to_snake_case(text, delete_numbers) ==
    LET splited_text == split_text(text)
        snake_case == join(Str(<<"_">>), LowerEach(splited_text))
    IN IF delete_numbers
       THEN to_snake_case(remove_numbers(snake_case), FALSE)
       ELSE Ret(snake_case)

RECURSIVE to_kebab_case(_, _)
to_kebab_case(text, delete_numbers) ==
    LET splited_text == split_text(text)
        kebab_case == join(Str(<<"-">>), LowerEach(splited_text))
    IN IF delete_numbers
       THEN to_kebab_case(remove_numbers(kebab_case), FALSE)
       ELSE Ret(kebab_case)

\* SEPARATOR = '_'
SEPARATOR == Str(<<"_">>)

\* f"{name}{separator}{suffix}" of the two camelCase conversions; the first
\* conversion that raises ends the call
add_suffix(name, suffix, separator) ==
    LET camel_name == to_camel_case(name)
        camel_suffix == to_camel_case(suffix)
    IN IF camel_name.raised # "none" THEN camel_name
       ELSE IF camel_suffix.raised # "none" THEN camel_suffix
       ELSE Ret(camel_name.value \o separator \o camel_suffix.value)

add_prefix(name, prefix, separator) ==
    LET camel_name == to_camel_case(name)
        camel_prefix == to_camel_case(prefix)
    IN IF camel_name.raised # "none" THEN camel_name
       ELSE IF camel_prefix.raised # "none" THEN camel_prefix
       ELSE Ret(camel_prefix.value \o separator \o camel_name.value)

(***************************************************************************)
(* Style predicates and get_case_style.  re.fullmatch of each grammar is   *)
(* computed by scanning the text from a position to its end.               *)
(***************************************************************************)
\* ([A-Z][a-z0-9]*)* from position i to the end of the text
RECURSIVE CapitalizedWords(_, _)
CapitalizedWords(text, i) ==
    IF i > Len(text) THEN TRUE
    ELSE /\ IsUpper(text[i])
         /\ CapitalizedWords(text, RunEnd(Lowers \cup Digits, text, i + 1) + 1)

\* (sep[a-z0-9]+)* from position i to the end of the text
RECURSIVE SeparatedWords(_, _, _)
SeparatedWords(text, i, sep) ==
    IF i > Len(text) THEN TRUE
    ELSE /\ text[i] = sep
         /\ RunEnd(Lowers \cup Digits, text, i + 1) >= i + 1
         /\ SeparatedWords(text, RunEnd(Lowers \cup Digits, text, i + 1) + 1,
                           sep)

\* ^[a-z]+([A-Z][a-z0-9]*)*$
is_camel_case(text) ==
    /\ RunEnd(Lowers, text, 1) >= 1
    /\ CapitalizedWords(text, RunEnd(Lowers, text, 1) + 1)

\* faulty variant: every capital must be followed by a lower-case letter or
\* a digit, ^[A-Z][a-z0-9]+([A-Z][a-z0-9]+)*$
RECURSIVE CapitalizedLongWords(_, _)
CapitalizedLongWords(text, i) ==
    IF i > Len(text) THEN TRUE
    ELSE /\ IsUpper(text[i])
         /\ RunEnd(Lowers \cup Digits, text, i + 1) >= i + 1
         /\ CapitalizedLongWords(text,
                                 RunEnd(Lowers \cup Digits, text, i + 1) + 1)

is_pascal_case_long_words(text) ==
    text # <<>> /\ CapitalizedLongWords(text, 1)

\* faulty variant: the first letter may be of either case
is_pascal_case_any_first(text) ==
    /\ text # <<>>
    /\ IsAlpha(text[1])
    /\ CapitalizedWords(text, RunEnd(Lowers \cup Digits, text, 2) + 1)

\* ^[A-Z][a-z0-9]*([A-Z][a-z0-9]*)*$
is_pascal_case(text) ==
    /\ text # <<>>
    /\ IsUpper(text[1])
    /\ CapitalizedWords(text, RunEnd(Lowers \cup Digits, text, 2) + 1)

\* ^[a-z]+(_[a-z0-9]+)*$
is_snake_case(text) ==
    /\ RunEnd(Lowers, text, 1) >= 1
    /\ SeparatedWords(text, RunEnd(Lowers, text, 1) + 1, ord("_"))

\* ^[a-z]+(-[a-z0-9]+)*$
is_kebab_case(text) ==
    /\ RunEnd(Lowers, text, 1) >= 1
    /\ SeparatedWords(text, RunEnd(Lowers, text, 1) + 1, ord("-"))

\* faulty variant: snake_case is checked first
get_case_style_snake_first(text) ==
    IF is_snake_case(text) THEN Ret("snake_case")
    ELSE IF is_camel_case(text) THEN Ret("camelCase")
    ELSE IF is_pascal_case(text) THEN Ret("PascalCase")
    ELSE IF is_kebab_case(text) THEN Ret("kebab-case")
    ELSE Ret("unknown")

\* the tag is a str, written here as a TLA+ string
get_case_style(text) ==
    IF is_camel_case(text) THEN Ret("camelCase")
    ELSE IF is_pascal_case(text) THEN Ret("PascalCase")
    ELSE IF is_snake_case(text) THEN Ret("snake_case")
    ELSE IF is_kebab_case(text) THEN Ret("kebab-case")
    ELSE Ret("unknown")

(***************************************************************************)
(* Digit runs.                                                             *)
(***************************************************************************)
\* re.findall(r'\d+', text) from position i on, on ASCII text
RECURSIVE FindDigits(_, _)
FindDigits(text, i) ==
    IF i > Len(text) THEN <<>>
    ELSE IF ~IsDigit(text[i]) THEN FindDigits(text, i + 1)
    ELSE <<Slice(text, i - 1, RunEnd(Digits, text, i))>>
            \o FindDigits(text, RunEnd(Digits, text, i) + 1)

get_digits(text) == FindDigits(text, 1)

\* number[index]: a negative index counts from the end, an index outside
\* -len(number) .. len(number) - 1 raises IndexError
ListItem(number, index) ==
    IF 0 <= index /\ index < Len(number) THEN Ret(number[index + 1])
    ELSE IF index < 0 /\ -index <= Len(number)
    THEN Ret(number[Len(number) + index + 1])
    ELSE Raise("IndexError")

\* the empty list [] is the empty sequence
get_digit_by_index(text, index) ==
    LET number == get_digits(text)
    IN IF number # <<>> THEN ListItem(number, index) ELSE Ret(<<>>)

get_first_number(text) ==
    LET number == get_digits(text)
    IN IF number # <<>> THEN ListItem(number, 0) ELSE Ret(<<>>)

get_last_number(text) ==
    LET number == get_digits(text)
    IN IF number # <<>> THEN ListItem(number, -1) ELSE Ret(<<>>)

\* the position of the first ']' of the text from position i on, or 0
ClosingBracket(text, i) ==
    LET at == {q \in i..Len(text) : text[q] = ord("]")}
    IN IF at = {} THEN 0 ELSE CHOOSE q \in at : \A r \in at : q <= r

\* faulty variant: a group that reaches the end of the text is captured
\* without its closing bracket
RECURSIVE FindBracketedUnclosed(_, _)
FindBracketedUnclosed(text, i) ==
    IF i > Len(text) THEN <<>>
    ELSE LET q == IF ClosingBracket(text, i + 1) = 0 THEN Len(text) + 1
                  ELSE ClosingBracket(text, i + 1)
         IN IF text[i] = ord("[") /\ q > i + 1
            THEN <<Slice(text, i, q - 1)>> \o FindBracketedUnclosed(text, q + 1)
            ELSE FindBracketedUnclosed(text, i + 1)

\* re.findall(r"\[([^\]]+)\]", text) from position i on: the groups
RECURSIVE FindBracketed(_, _)
FindBracketed(text, i) ==
    IF i > Len(text) THEN <<>>
    ELSE LET q == ClosingBracket(text, i + 1)
         IN IF text[i] = ord("[") /\ q > i + 1
            THEN <<Slice(text, i, q - 1)>> \o FindBracketed(text, q + 1)
            ELSE FindBracketed(text, i + 1)

\* numeric_results.extend(re.findall(r'\d+', item)) for each item
RECURSIVE ExtendWithDigits(_)
ExtendWithDigits(results) ==
    IF results = <<>> THEN <<>>
    ELSE FindDigits(results[1], 1) \o ExtendWithDigits(Tail(results))

get_values_between_brackets(text) ==
    LET results == FindBracketed(text, 1)
    IN ExtendWithDigits(results)

(***************************************************************************)
(* Alphabetic increment and decrement.                                     *)
(***************************************************************************)
\* faulty variant: an end character is not reset when the carry moves left
RECURSIVE IncrementLoopNoReset(_, _, _, _)
IncrementLoopNoReset(text, i, start_char, end_char) ==
    IF i < 1 THEN <<start_char>> \o text
    ELSE IF text[i] # end_char THEN [text EXCEPT ![i] = text[i] + 1]
    ELSE IncrementLoopNoReset(text, i - 1, start_char, end_char)

\* the while loop of increment_character, entered with index i (1-based)
RECURSIVE IncrementLoop(_, _, _, _)
IncrementLoop(text, i, start_char, end_char) ==
    IF i < 1 THEN <<start_char>> \o text
    ELSE IF text[i] # end_char THEN [text EXCEPT ![i] = text[i] + 1]
    ELSE IncrementLoop([text EXCEPT ![i] = start_char], i - 1,
                       start_char, end_char)

increment_character(text) ==
    IF text = <<>> THEN Raise("IndexError")
    ELSE LET is_upper == IsUpper(text[1])
             start_char == IF is_upper THEN ord("A") ELSE ord("a")
             end_char == IF is_upper THEN ord("Z") ELSE ord("z")
         IN Ret(IncrementLoop(text, Len(text), start_char, end_char))

\* faulty variant: a start character is not reset when the borrow moves left
RECURSIVE DecrementLoopNoReset(_, _, _, _)
DecrementLoopNoReset(text, i, start_char, end_char) ==
    IF i < 1 THEN Tail(text)
    ELSE IF text[i] # start_char THEN [text EXCEPT ![i] = text[i] - 1]
    ELSE DecrementLoopNoReset(text, i - 1, start_char, end_char)

\* faulty variant: the first character is kept when every position borrowed
RECURSIVE DecrementLoopNoDrop(_, _, _, _)
DecrementLoopNoDrop(text, i, start_char, end_char) ==
    IF i < 1 THEN text
    ELSE IF text[i] # start_char THEN [text EXCEPT ![i] = text[i] - 1]
    ELSE DecrementLoopNoDrop([text EXCEPT ![i] = end_char], i - 1,
                             start_char, end_char)

\* the while loop of decrement_character, entered with index i (1-based)
RECURSIVE DecrementLoop(_, _, _, _)
DecrementLoop(text, i, start_char, end_char) ==
    IF i < 1 THEN Tail(text)
    ELSE IF text[i] # start_char THEN [text EXCEPT ![i] = text[i] - 1]
    ELSE DecrementLoop([text EXCEPT ![i] = end_char], i - 1,
                       start_char, end_char)

\* faulty variant: the case is read from the second character, text[1]
decrement_character_second(text) ==
    IF Len(text) < 2 THEN Raise("IndexError")
    ELSE LET is_upper == IsUpper(text[2])
             start_char == IF is_upper THEN ord("A") ELSE ord("a")
             end_char == IF is_upper THEN ord("Z") ELSE ord("z")
         IN Ret(DecrementLoop(text, Len(text), start_char, end_char))

decrement_character(text) ==
    IF text = <<>> THEN Raise("IndexError")
    ELSE LET is_upper == IsUpper(text[1])
             start_char == IF is_upper THEN ord("A") ELSE ord("a")
             end_char == IF is_upper THEN ord("Z") ELSE ord("z")
         IN Ret(DecrementLoop(text, Len(text), start_char, end_char))

(***************************************************************************)
(* Digit-run increment and decrement.                                      *)
(***************************************************************************)
\* int(s) for a str of ASCII digits
RECURSIVE int(_)
int(s) ==
    IF s = <<>> THEN 0
    ELSE 10 * int(SubSeq(s, 1, Len(s) - 1)) + (s[Len(s)] - 48)

\* str(n) for an int n >= 0
RECURSIVE str(_)
str(n) ==
    IF n < 10 THEN <<48 + n>>
    ELSE Append(str(n \div 10), 48 + (n % 10))

\* faulty variant: pads on the right
zfill_right(s, width) ==
    IF width <= Len(s) THEN s
    ELSE s \o [i \in 1..(width - Len(s)) |-> ord("0")]

\* s.zfill(width) for a str without sign
zfill(s, width) ==
    IF width <= Len(s) THEN s
    ELSE [i \in 1..(width - Len(s)) |-> ord("0")] \o s

\* re.search(r'(\d+)$', text): match.start() (0-based) of the leftmost
\* digit run that reaches the end of the text, or -1 when there is no match
TrailingDigits(text) ==
    LET starts == {i \in 1..Len(text) :
                      /\ IsDigit(text[i])
                      /\ AtDollar(text, RunEnd(Digits, text, i))}
    IN IF starts = {} THEN -1
       ELSE (CHOOSE i \in starts : \A j \in starts : i <= j) - 1

\* match.group(1)
TrailingGroup(text) ==
    LET start == TrailingDigits(text)
    IN Slice(text, start, RunEnd(Digits, text, start + 1))

\* None is the default digits=None, Some(n) an int argument
None == <<>>
Some(n) == <<n>>

\* faulty variant: the default padding is 3
increment_digit_pad3(text, digits) ==
    LET width == IF digits = None \/ digits[1] = 0 THEN 3 ELSE digits[1]
        start == TrailingDigits(text)
    IN IF start >= 0
       THEN Ret(Slice(text, 0, start)
                    \o zfill(str(int(TrailingGroup(text)) + 1), width))
       ELSE Ret(text \o zfill(Str(<<"1">>), width))

increment_digit(text, digits) ==
    LET width == IF digits = None \/ digits[1] = 0 THEN 2 ELSE digits[1]
        start == TrailingDigits(text)
    IN IF start >= 0
       THEN LET current_number == TrailingGroup(text)
                incremented_number == zfill(str(int(current_number) + 1), width)
            IN Ret(Slice(text, 0, start) \o incremented_number)
       ELSE Ret(text \o zfill(Str(<<"1">>), width))

\* faulty variant: only a run of value 0 is removed
decrement_digit_zero_only(text) ==
    LET start == TrailingDigits(text)
    IN IF start >= 0
       THEN LET current_number == TrailingGroup(text)
            IN IF int(current_number) = 0
               THEN Ret(Slice(text, 0, start))
               ELSE Ret(Slice(text, 0, start)
                            \o zfill(str(int(current_number) - 1),
                                     Len(current_number)))
       ELSE Ret(text)

\* faulty variant: the decremented number is not padded to the width
decrement_digit_unpadded(text) ==
    LET start == TrailingDigits(text)
    IN IF start >= 0
       THEN LET current_number == TrailingGroup(text)
            IN IF int(current_number) = 0 \/ int(current_number) = 1
               THEN Ret(Slice(text, 0, start))
               ELSE Ret(Slice(text, 0, start) \o str(int(current_number) - 1))
       ELSE Ret(text)

decrement_digit(text) ==
    LET start == TrailingDigits(text)
    IN IF start >= 0
       THEN LET current_number == TrailingGroup(text)
            IN IF int(current_number) = 0 \/ int(current_number) = 1
               THEN Ret(Slice(text, 0, start))
               ELSE LET width == Len(current_number)
                        decremented_number ==
                            zfill(str(int(current_number) - 1), width)
                    IN Ret(Slice(text, 0, start) \o decremented_number)
       ELSE Ret(text)

(***************************************************************************)
(* Value/text codec.                                                       *)
(*                                                                         *)
(* A Python number is a record: type "int" or "float", the sign, and the   *)
(* decimal digits of its magnitude as they appear in str(value): ip is the *)
(* integer part without leading zeros, fp the fractional part of a float   *)
(* without trailing zeros ("0" for an integral float, empty for an int).   *)
(* A float is identified by its repr, which float() maps back to the same  *)
(* double.  float() is exact on a literal of at most 15 significant        *)
(* digits and on integer literals up to 2**53; an integer literal between  *)
(* 2**53 and 2**54 rounds to the nearest even integer, ties to the even    *)
(* mantissa.  Literals beyond that are outside this model.                 *)
(***************************************************************************)
PyInt(neg, ip) == [type |-> "int", neg |-> neg, ip |-> ip, fp |-> <<>>]
PyFloat(neg, ip, fp) == [type |-> "float", neg |-> neg, ip |-> ip, fp |-> fp]

IsZero(v) == v.ip = Str(<<"0">>) /\ v.fp \in {<<>>, Str(<<"0">>)}

\* value < 0
Negative(v) == v.neg /\ ~IsZero(v)

\* abs(value)
abs(v) == [v EXCEPT !.neg = FALSE]

\* a == b between ints and floats: exact numeric comparison
NumEq(a, b) ==
    \/ IsZero(a) /\ IsZero(b)
    \/ /\ a.neg = b.neg
       /\ a.ip = b.ip
       /\ (IF a.fp = Str(<<"0">>) THEN <<>> ELSE a.fp)
            = (IF b.fp = Str(<<"0">>) THEN <<>> ELSE b.fp)

\* f'{value}'
format(v) ==
    (IF v.neg THEN Str(<<"-">>) ELSE <<>>)
        \o v.ip
        \o (IF v.type = "float" THEN Str(<<".">>) \o v.fp ELSE <<>>)

\* text.replace(old, new) for single characters
replace(text, old, new) ==
    [i \in 1..Len(text) |-> IF text[i] = old THEN new ELSE text[i]]

\* faulty variant: abs() is not applied to a negative value
convert_value_to_text_no_abs(value) ==
    LET sign == IF Negative(value) THEN Str(<<"M">>) ELSE <<>>
    IN Ret(replace(sign \o format(value), ord("."), ord("d")))

convert_value_to_text(value) ==
    LET sign == IF Negative(value) THEN Str(<<"M">>) ELSE <<>>
        positive == IF Negative(value) THEN abs(value) ELSE value
    IN Ret(replace(sign \o format(positive), ord("."), ord("d")))

\* digits without leading zeros ("0" when nothing is left)
RECURSIVE StripLeadingZeros(_)
StripLeadingZeros(ds) ==
    IF ds = <<>> THEN Str(<<"0">>)
    ELSE IF ds[1] = ord("0") THEN StripLeadingZeros(Tail(ds))
    ELSE ds

\* digits without trailing zeros ("0" when nothing is left)
RECURSIVE StripTrailingZeros(_)
StripTrailingZeros(ds) ==
    IF ds = <<>> THEN Str(<<"0">>)
    ELSE IF ds[Len(ds)] = ord("0")
    THEN StripTrailingZeros(SubSeq(ds, 1, Len(ds) - 1))
    ELSE ds

\* a >= b for digit strings without leading zeros
RECURSIVE DigitsGE(_, _)
DigitsGE(a, b) ==
    IF Len(a) # Len(b) THEN Len(a) > Len(b)
    ELSE IF a = <<>> THEN TRUE
    ELSE IF a[1] # b[1] THEN a[1] > b[1]
    ELSE DigitsGE(Tail(a), Tail(b))

\* ds + 1 for a digit string
RECURSIVE DigitsSucc(_)
DigitsSucc(ds) ==
    IF ds = <<>> THEN Str(<<"1">>)
    ELSE IF ds[Len(ds)] # ord("9")
    THEN [ds EXCEPT ![Len(ds)] = ds[Len(ds)] + 1]
    ELSE Append(DigitsSucc(SubSeq(ds, 1, Len(ds) - 1)), ord("0"))

\* 2**53: above it a double no longer holds every integer
TwoPow53 == Str(<<"9", "0", "0", "7", "1", "9", "9", "2",
                  "5", "4", "7", "4", "0", "9", "9", "2">>)

\* the integer nearest to ip that a double holds, for ip < 2**54
RoundToDouble(ip) ==
    IF ~DigitsGE(ip, TwoPow53) THEN ip
    ELSE LET last == ip[Len(ip)] - 48
             mod4 == (10 * (ip[Len(ip) - 1] - 48) + last) % 4
         IN IF mod4 = 1 THEN [ip EXCEPT ![Len(ip)] = ip[Len(ip)] - 1]
            ELSE IF mod4 = 3 THEN DigitsSucc(ip)
            ELSE ip

\* float(text) on a text free of white space and of the letters of an
\* exponent, 'inf', 'nan' and 'infinity': an optional sign, then digits with
\* at most one '.', where a '_' may stand between two digits
float(text) ==
    LET signed == text # <<>> /\ text[1] \in {ord("+"), ord("-")}
        neg == signed /\ text[1] = ord("-")
        body == IF signed THEN Tail(text) ELSE text
        grouped == \A i \in 1..Len(body) :
                      body[i] = ord("_") =>
                          /\ 1 < i /\ i < Len(body)
                          /\ IsDigit(body[i - 1]) /\ IsDigit(body[i + 1])
        literal == SelectSeq(body, LAMBDA c : c # ord("_"))
        dots == {i \in 1..Len(literal) : literal[i] = ord(".")}
        point == IF dots = {} THEN Len(literal) + 1
                 ELSE CHOOSE i \in dots : TRUE
        ip == SubSeq(literal, 1, point - 1)
        fp == SubSeq(literal, point + 1, Len(literal))
    IN IF \/ ~grouped
          \/ Cardinality(dots) > 1
          \/ \E i \in 1..Len(literal) :
                ~IsDigit(literal[i]) /\ literal[i] # ord(".")
          \/ ip \o fp = <<>>
       THEN Raise("ValueError")
       ELSE Ret(PyFloat(neg,
                        IF StripTrailingZeros(fp) = Str(<<"0">>)
                        THEN RoundToDouble(StripLeadingZeros(ip))
                        ELSE StripLeadingZeros(ip),
                        StripTrailingZeros(fp)))

convert_text_to_value(text) ==
    IF text = <<>> THEN Raise("IndexError")
    ELSE LET minus == text[1] = ord("M")
             parsed == float(replace(IF minus THEN Tail(text) ELSE text,
                                     ord("d"), ord(".")))
         IN IF parsed.raised # "none" THEN parsed
            ELSE Ret(IF minus
                     THEN [parsed.value EXCEPT !.neg = ~parsed.value.neg]
                     ELSE parsed.value)

(***************************************************************************)
(* The Maya scene behind lib/node.py, lib/nodes.py and                     *)
(* solutions/attributes.py.  The scene holds at most one node and one      *)
(* attribute, and a maya.cmds call acts on it as Maya documents the        *)
(* command: a locked node can be neither deleted nor renamed, and the      *)
(* value of a locked attribute cannot be set.                              *)
(*                                                                         *)
(* A world is the scene, the cmds calls the running method has made so     *)
(* far, and the exception that ended the method, if any.  A cmds call made *)
(* after the method has ended does not happen.                             *)
(***************************************************************************)
\* a cmds call: the command, its target, its flag, its other argument, and
\* whether the target was locked when the call was made
Command(w, cmd, target, flag, arg, locked) ==
    [w EXCEPT !.commands =
        Append(@, [cmd |-> cmd, target |-> target, flag |-> flag,
                   arg |-> arg, locked |-> locked])]

Raised(w, e) == [w EXCEPT !.raised = e]

\* the value of cmds.objExists(name)
NodeExists(w, name) == w.node = Some(name)

\* cmds.objExists(name)
objExists(w, name) ==
    IF w.raised # "none" THEN w
    ELSE Command(w, "objExists", name, "", <<>>, w.locked)

\* cmds.lockNode(name, query=True, lock=True); its value is [w.locked]
lockNodeQuery(w, name) ==
    IF w.raised # "none" THEN w
    ELSE Command(w, "lockNode", name, "query", <<>>, w.locked)

\* cmds.lockNode(name, lock=lock)
lockNode(w, name, lock) ==
    IF w.raised # "none" THEN w
    ELSE [Command(w, "lockNode", name, IF lock THEN "lock" ELSE "unlock",
                  <<>>, w.locked)
             EXCEPT !.locked = lock]

\* cmds.lockNode(name, True, l=True)[0]: the call has no query flag.  Maya
\* either rejects the positional True, or locks the node and returns None;
\* the subscript of None raises as well.
LockNodeOutcomes == {"rejected", "locked"}

lockNodeTrue(w, name, outcome) ==
    IF w.raised # "none" THEN w
    ELSE LET called == Command(w, "lockNode", name, "lock", <<>>, w.locked)
         IN IF outcome = "rejected"
            THEN Raised(called, "TypeError")
            ELSE Raised([called EXCEPT !.locked = TRUE], "TypeError")

\* cmds.delete(name)
delete(w, name) ==
    IF w.raised # "none" THEN w
    ELSE LET called == Command(w, "delete", name, "", <<>>, w.locked)
         IN IF w.locked
            THEN Raised(called, "RuntimeError")
            ELSE [called EXCEPT !.node = None]

\* cmds.rename(name, new_name)
rename(w, name, new_name) ==
    IF w.raised # "none" THEN w
    ELSE LET called == Command(w, "rename", name, "", new_name, w.locked)
         IN IF w.locked
            THEN Raised(called, "RuntimeError")
            ELSE [called EXCEPT !.node = Some(new_name)]

\* cmds.attributeQuery(attribute, n=node, ex=True); its value is
\* w.attribute.exists
attributeQuery(w, plug) ==
    IF w.raised # "none" THEN w
    ELSE Command(w, "attributeQuery", plug, "exists", <<>>, w.attribute.locked)

\* cmds.getAttr(f'{node}.{attribute}', l=True); its value is
\* w.attribute.locked
getAttrLock(w, plug) ==
    IF w.raised # "none" THEN w
    ELSE Command(w, "getAttr", plug, "lock", <<>>, w.attribute.locked)

\* cmds.setAttr(f'{node}.{attribute}', l=lock)
setAttrLock(w, plug, lock) ==
    IF w.raised # "none" THEN w
    ELSE [Command(w, "setAttr", plug, IF lock THEN "lock" ELSE "unlock",
                  <<>>, w.attribute.locked)
             EXCEPT !.attribute.locked = lock]

\* cmds.addAttr(f'{node}.{attribute}', e=True, dv=value)
addAttr(w, plug, v) ==
    IF w.raised # "none" THEN w
    ELSE [Command(w, "addAttr", plug, "defaultValue", <<v>>,
                  w.attribute.locked)
             EXCEPT !.attribute.default = v]

\* cmds.setAttr(f'{node}.{attribute}', value)
setAttr(w, plug, v) ==
    IF w.raised # "none" THEN w
    ELSE LET called == Command(w, "setAttr", plug, "value", <<v>>,
                               w.attribute.locked)
         IN IF w.attribute.locked
            THEN Raised(called, "RuntimeError")
            ELSE [called EXCEPT !.attribute.value = v]

\* what a call hands back: the world it leaves, and what it returned
\* unless a cmds call raised
Outcome(w, returned) ==
    [world |-> w,
     result |-> IF w.raised = "none" THEN Ret(returned) ELSE Raise(w.raised)]

(***************************************************************************)
(* The Node wrapper.  module is "node" for lib/node.py and "nodes" for     *)
(* lib/nodes.py; the two differ in is_node_locked.  The methods that only  *)
(* serve another one are given as the world they leave.                    *)
(***************************************************************************)
Modules == {"node", "nodes"}

\* Node.node_exists: its value is NodeExists(w, name)
node_exists(w, name) == objExists(w, name)

\* Node.is_node_locked: its value is w.locked when the node exists
is_node_locked(w, module, name, outcome) ==
    LET exists == node_exists(w, name)
    IN IF ~NodeExists(w, name) THEN exists
       ELSE IF module = "nodes" THEN lockNodeQuery(exists, name)
       ELSE lockNodeTrue(exists, name, outcome)

\* Node.lock_node
lock_node(w, name, lock) ==
    LET exists == node_exists(w, name)
    IN IF ~NodeExists(w, name) THEN Outcome(exists, FALSE)
       ELSE Outcome(lockNode(exists, name, lock), TRUE)

\* Node.delete_node
delete_node(w, module, name, outcome) ==
    LET exists == node_exists(w, name)
    IN IF NodeExists(w, name)
       THEN LET queried == is_node_locked(exists, module, name, outcome)
                unlocked == IF queried.raised = "none" /\ w.locked
                            THEN lock_node(queried, name, FALSE).world
                            ELSE queried
            IN Outcome(delete(unlocked, name), TRUE)
       ELSE Outcome(exists, FALSE)

\* faulty variant: self.name is not updated
rename_node_keeps_name(w, self, new_name) ==
    LET exists == node_exists(w, self)
    IN IF ~NodeExists(w, self)
       THEN [world |-> exists, name |-> self, result |-> Ret(None)]
       ELSE LET renamed == rename(exists, self, new_name)
            IN IF renamed.raised = "none"
               THEN [world |-> renamed, name |-> self,
                     result |-> Ret(Some(new_name))]
               ELSE [world |-> renamed, name |-> self,
                     result |-> Raise(renamed.raised)]

\* Node.rename_node; name is self.name after the call, and the str the
\* method returns is Some(new_name)
rename_node(w, self, new_name) ==
    LET exists == node_exists(w, self)
    IN IF ~NodeExists(w, self)
       THEN [world |-> exists, name |-> self, result |-> Ret(None)]
       ELSE LET renamed == rename(exists, self, new_name)
            IN IF renamed.raised = "none"
               THEN [world |-> renamed, name |-> new_name,
                     result |-> Ret(Some(new_name))]
               ELSE [world |-> renamed, name |-> self,
                     result |-> Raise(renamed.raised)]

\* Node.increment_digit
Node_increment_digit(w, self, digits) ==
    LET new_name == increment_digit(self, digits).value
    IN rename_node(w, self, new_name)

\* Node.decrement_digit
Node_decrement_digit(w, self) ==
    LET new_name == decrement_digit(self).value
    IN rename_node(w, self, new_name)

(***************************************************************************)
(* solutions/attributes.py.  plug is f'{node}.{attribute}'.                *)
(***************************************************************************)
\* attribute_exists: its value is w.attribute.exists
attribute_exists(w, plug) == attributeQuery(w, plug)

\* is_attribute_locked: its value is w.attribute.locked when the attribute
\* exists
is_attribute_locked(w, plug) ==
    LET exists == attribute_exists(w, plug)
    IN IF ~w.attribute.exists THEN exists ELSE getAttrLock(exists, plug)

\* lock_attribute
lock_attribute(w, plug, lock) ==
    LET exists == attribute_exists(w, plug)
    IN IF ~w.attribute.exists THEN Outcome(exists, FALSE)
       ELSE Outcome(setAttrLock(exists, plug, lock), TRUE)

\* faulty variant: the attribute is locked at the end whatever it was
set_default_value_locks(w, plug, v) ==
    LET exists == attribute_exists(w, plug)
    IN IF ~w.attribute.exists THEN Outcome(exists, FALSE)
       ELSE LET queried == is_attribute_locked(exists, plug)
                unlocked == IF w.attribute.locked
                            THEN lock_attribute(queried, plug, FALSE).world
                            ELSE queried
                written == setAttr(addAttr(unlocked, plug, v), plug, v)
            IN Outcome(lock_attribute(written, plug, TRUE).world, TRUE)

set_default_value(w, plug, v) ==
    LET exists == attribute_exists(w, plug)
    IN IF ~w.attribute.exists THEN Outcome(exists, FALSE)
       ELSE LET queried == is_attribute_locked(exists, plug)
                lock == w.attribute.locked
                unlocked == IF lock
                            THEN lock_attribute(queried, plug, FALSE).world
                            ELSE queried
                written == setAttr(addAttr(unlocked, plug, v), plug, v)
            IN Outcome(lock_attribute(written, plug, lock).world, TRUE)

(***************************************************************************)
(* Arguments the functions are called with.                                *)
(***************************************************************************)
\* every str of at most n characters of the set chars
Strings(chars, n) == UNION {[1..k -> chars] : k \in 0..n}

\* identifiers: letters, digits and the delimiters '_' and '-'
IdentifierChars == {ord("a"), ord("A"), ord("B"), ord("1"), ord("_"), ord("-")}
Identifiers == Strings(IdentifierChars, MaxLen)

\* letter sequences of one case, with the start and the end characters
UpperTexts == Strings({ord("A"), ord("B"), ord("Y"), ord("Z")}, MaxLen)
LowerTexts == Strings({ord("a"), ord("b"), ord("y"), ord("z")}, MaxLen)

\* a name followed by a digit run
NumberedTexts ==
    {name \o run : name \in {<<>>, Str(<<"a">>), Str(<<"a", "_">>)},
                   run \in Strings({ord("0"), ord("1"), ord("2"), ord("9")},
                                   MaxLen)}

\* words separated by spaces
SpacedTexts == Strings({ord("a"), ord("A"), ord(" ")}, MaxLen)

\* texts of the characters of the value codec
CodecTexts == Strings({ord("M"), ord("d"), ord("1"), ord("5")}, MaxLen)

\* texts with square brackets
BracketTexts ==
    Strings({ord("["), ord("]"), ord("1"), ord("a")}, MaxLen)

Texts ==
    Identifiers \cup UpperTexts \cup LowerTexts \cup NumberedTexts
        \cup SpacedTexts \cup CodecTexts \cup BracketTexts

\* the suffix or prefix argument of add_suffix and add_prefix
Affixes ==
    {<<>>, Str(<<"_">>), Str(<<"A">>), Str(<<"1">>), Str(<<"_", "a", "B">>)}

\* the separator argument: the default and another one
Separators == {SEPARATOR, Str(<<"-">>)}

\* the index argument of get_digit_by_index
IndexArguments == -MaxIndex..MaxIndex

\* the digits argument of increment_digit
DigitsArguments == {None} \cup {Some(n) : n \in -1..(MaxLen + 1)}

\* numbers whose str() has no exponent
NumberDigits == {ord("0"), ord("1"), ord("5"), ord("9")}

IntegerParts ==
    {ds \in Strings(NumberDigits, MaxDigits) :
        ds # <<>> /\ (ds[1] = ord("0") => Len(ds) = 1)}

FractionalParts ==
    {ds \in Strings(NumberDigits, MaxDigits) :
        ds # <<>> /\ (ds[Len(ds)] = ord("0") => Len(ds) = 1)}

\* the integers 2**53 - 2 .. 2**53 + 7
IntegersAround2Pow53 ==
    {SubSeq(TwoPow53, 1, 15) \o <<d>> : d \in 48..57}

Ints ==
    {PyInt(neg, ip) : neg \in BOOLEAN,
                      ip \in IntegerParts \cup IntegersAround2Pow53}
        \ {PyInt(TRUE, Str(<<"0">>))}

\* repr() of a float switches to an exponent below 1e-04 and from 1e+16
Floats ==
    {f \in {PyFloat(neg, ip, fp) : neg \in BOOLEAN, ip \in IntegerParts,
                                   fp \in FractionalParts} :
        /\ Len(f.ip) <= 16
        /\ ~(f.ip = Str(<<"0">>) /\ Len(f.fp) > 4
               /\ \A i \in 1..4 : f.fp[i] = ord("0"))}

Numbers == Ints \cup Floats

\* names of scene nodes: a name, and the name followed by a digit run
NodeNames == {Str(<<"a">>), Str(<<"a", "1">>), Str(<<"a", "0", "9">>)}

\* the new_name argument of rename_node
NewNames == {Str(<<"b">>), Str(<<"a", "1">>)}

\* the digits argument of Node.increment_digit
NodeDigitsArguments == {None, Some(3)}

\* the attribute the functions of attributes.py are called on
Plug == Str(<<"a", ".", "b">>)

\* the value argument of set_default_value
DefaultValues == {PyInt(FALSE, Str(<<"1">>)), PyInt(FALSE, Str(<<"5">>))}

\* the attribute of the scene: absent, or present with a lock state
Attributes ==
    {[exists |-> e, locked |-> l, default |-> d, value |-> v] :
        e \in BOOLEAN, l \in BOOLEAN,
        d \in DefaultValues \cup {PyInt(FALSE, Str(<<"0">>))},
        v \in DefaultValues \cup {PyInt(FALSE, Str(<<"0">>))}}

NoAttribute ==
    [exists |-> FALSE, locked |-> FALSE,
     default |-> PyInt(FALSE, Str(<<"0">>)),
     value |-> PyInt(FALSE, Str(<<"0">>))]

(***************************************************************************)
(* The state: the arguments of the call and what it returned or raised.    *)
(***************************************************************************)
VARIABLES text, digits, index, value, delete_numbers, affix, separator, op,
          result

\* The scene, the Node wrapper and its class, the cmds calls of the last
\* call, and how many calls were made.
VARIABLES module, self_name, scene_node, node_locked, attribute, commands,
          calls

scene_vars ==
    <<module, self_name, scene_node, node_locked, attribute, commands, calls>>

vars ==
    <<text, digits, index, value, delete_numbers, affix, separator, op, result,
      scene_vars>>

TypeOK ==
    /\ text \in Seq(Nat)
    /\ digits \in DigitsArguments
    /\ index \in IndexArguments
    /\ value \in Numbers
    /\ delete_numbers \in BOOLEAN
    /\ affix \in Affixes
    /\ separator \in Separators
    /\ op \in STRING
    /\ result.raised \in {"none", "IndexError", "ValueError", "TypeError",
                          "RuntimeError"}
    /\ module \in Modules
    /\ self_name \in Seq(Nat)
    /\ scene_node = None \/ (Len(scene_node) = 1 /\ scene_node[1] \in Seq(Nat))
    /\ node_locked \in BOOLEAN
    /\ node_locked => scene_node # None
    /\ attribute \in Attributes
    /\ attribute.locked => attribute.exists
    /\ \A i \in 1..Len(commands) : commands[i].locked \in BOOLEAN
    /\ calls \in 0..MaxCalls

\* the naming functions are called without a scene
NoScene ==
    /\ module = "node"
    /\ self_name = <<>>
    /\ scene_node = None
    /\ node_locked = FALSE
    /\ attribute = NoAttribute
    /\ commands = <<>>
    /\ calls = 0

\* no call made yet: either a text or a number is at hand
Init ==
    /\ \/ text \in Texts /\ value = PyInt(FALSE, Str(<<"0">>))
       \/ text = <<>> /\ value \in Numbers
    /\ digits = None
    /\ index = 0
    /\ delete_numbers = FALSE
    /\ affix = <<>>
    /\ separator = SEPARATOR
    /\ op = "none"
    /\ result = Ret(<<>>)
    /\ NoScene

\* a behaviour is one call; this is a call of a function of the text alone
CallOnText(name, outcome) ==
    /\ op = "none"
    /\ op' = name
    /\ result' = outcome
    /\ UNCHANGED <<text, digits, index, value, delete_numbers, affix, separator,
                   scene_vars>>

ToCamelCase == CallOnText("to_camel_case", to_camel_case(text))
ToPascalCase == CallOnText("to_pascal_case", to_pascal_case(text))

ToSnakeCase ==
    \E d \in BOOLEAN :
        /\ op = "none"
        /\ op' = "to_snake_case"
        /\ delete_numbers' = d
        /\ result' = to_snake_case(text, d)
        /\ UNCHANGED <<text, digits, index, value, affix, separator,
                   scene_vars>>

ToKebabCase ==
    \E d \in BOOLEAN :
        /\ op = "none"
        /\ op' = "to_kebab_case"
        /\ delete_numbers' = d
        /\ result' = to_kebab_case(text, d)
        /\ UNCHANGED <<text, digits, index, value, affix, separator,
                   scene_vars>>

IncrementCharacter ==
    CallOnText("increment_character", increment_character(text))
DecrementCharacter ==
    CallOnText("decrement_character", decrement_character(text))
DecrementDigit == CallOnText("decrement_digit", decrement_digit(text))
ConvertTextToValue ==
    CallOnText("convert_text_to_value", convert_text_to_value(text))

SplitText == CallOnText("split_text", Ret(split_text(text)))
GetCaseStyle == CallOnText("get_case_style", get_case_style(text))
GetFirstNumber == CallOnText("get_first_number", get_first_number(text))
GetLastNumber == CallOnText("get_last_number", get_last_number(text))
GetValuesBetweenBrackets ==
    CallOnText("get_values_between_brackets",
               Ret(get_values_between_brackets(text)))

GetDigitByIndex ==
    \E i \in IndexArguments :
        /\ op = "none"
        /\ op' = "get_digit_by_index"
        /\ index' = i
        /\ result' = get_digit_by_index(text, i)
        /\ UNCHANGED <<text, digits, value, delete_numbers, affix, separator,
                   scene_vars>>

IncrementDigit ==
    \E d \in DigitsArguments :
        /\ op = "none"
        /\ op' = "increment_digit"
        /\ digits' = d
        /\ result' = increment_digit(text, d)
        /\ UNCHANGED <<text, index, value, delete_numbers, affix, separator,
                   scene_vars>>

AddSuffix ==
    \E a \in Affixes, s \in Separators :
        /\ op = "none"
        /\ op' = "add_suffix"
        /\ affix' = a
        /\ separator' = s
        /\ result' = add_suffix(text, a, s)
        /\ UNCHANGED <<text, digits, index, value, delete_numbers,
                   scene_vars>>

AddPrefix ==
    \E a \in Affixes, s \in Separators :
        /\ op = "none"
        /\ op' = "add_prefix"
        /\ affix' = a
        /\ separator' = s
        /\ result' = add_prefix(text, a, s)
        /\ UNCHANGED <<text, digits, index, value, delete_numbers,
                   scene_vars>>

ConvertValueToText ==
    /\ op = "none"
    /\ op' = "convert_value_to_text"
    /\ result' = convert_value_to_text(value)
    /\ UNCHANGED <<text, digits, index, value, delete_numbers, affix, separator,
                   scene_vars>>

Next ==
    \/ ToCamelCase
    \/ ToPascalCase
    \/ ToSnakeCase
    \/ ToKebabCase
    \/ IncrementCharacter
    \/ DecrementCharacter
    \/ IncrementDigit
    \/ DecrementDigit
    \/ ConvertValueToText
    \/ ConvertTextToValue
    \/ SplitText
    \/ GetCaseStyle
    \/ GetDigitByIndex
    \/ GetFirstNumber
    \/ GetLastNumber
    \/ GetValuesBetweenBrackets
    \/ AddSuffix
    \/ AddPrefix

Spec == Init /\ [][Next]_vars

(***************************************************************************)
(* A caller that applies decrement_digit again and again, each time to the *)
(* text the last application returned.                                     *)
(***************************************************************************)
\* a name followed by a digit run; the runs below the first one come up as
\* the text is decremented
RepeatTexts ==
    {name \o run : name \in {<<>>, Str(<<"a">>), Str(<<"a", "_">>)},
                   run \in Strings({ord("0"), ord("1"), ord("2")}, MaxDigits)}

InitRepeat ==
    /\ text \in RepeatTexts
    /\ value = PyInt(FALSE, Str(<<"0">>))
    /\ digits = None
    /\ index = 0
    /\ delete_numbers = FALSE
    /\ affix = <<>>
    /\ separator = SEPARATOR
    /\ op = "none"
    /\ result = Ret(<<>>)
    /\ NoScene

\* text = decrement_digit(text)
RepeatDecrementDigit ==
    /\ op' = "decrement_digit"
    /\ result' = decrement_digit(text)
    /\ text' = result'.value
    /\ UNCHANGED <<digits, index, value, delete_numbers, affix, separator,
                   scene_vars>>

NextRepeat == RepeatDecrementDigit

\* the caller goes on as long as an application changes something
SpecRepeat == InitRepeat /\ [][NextRepeat]_vars /\ WF_vars(NextRepeat)

(***************************************************************************)
(* A caller that works on a scene through one Node wrapper and through the *)
(* attribute functions, a bounded number of calls one after the other.     *)
(***************************************************************************)
InitScene ==
    /\ module \in Modules
    /\ self_name \in NodeNames
    /\ scene_node \in {None} \cup {Some(n) : n \in NodeNames}
    /\ node_locked \in BOOLEAN
    /\ node_locked => scene_node # None
    /\ attribute \in {a \in Attributes :
                        /\ a.locked => a.exists
                        /\ a.default = NoAttribute.default
                        /\ a.value = NoAttribute.value}
    /\ commands = <<>>
    /\ calls = 0
    /\ text = <<>>
    /\ value = PyInt(FALSE, Str(<<"0">>))
    /\ digits = None
    /\ index = 0
    /\ delete_numbers = FALSE
    /\ affix = <<>>
    /\ separator = SEPARATOR
    /\ op = "none"
    /\ result = Ret(<<>>)

\* the world a call starts in
World ==
    [node |-> scene_node, locked |-> node_locked, attribute |-> attribute,
     commands |-> <<>>, raised |-> "none"]

\* one more call: what it leaves in the scene and what it hands back
SceneCall(name, outcome) ==
    /\ calls < MaxCalls
    /\ calls' = calls + 1
    /\ op' = name
    /\ result' = outcome.result
    /\ scene_node' = outcome.world.node
    /\ node_locked' = outcome.world.locked
    /\ attribute' = outcome.world.attribute
    /\ commands' = outcome.world.commands
    /\ UNCHANGED <<module, index, delete_numbers, affix, separator>>

LockNode ==
    \E lock \in BOOLEAN :
        /\ SceneCall("lock_node", lock_node(World, self_name, lock))
        /\ UNCHANGED <<self_name, text, digits, value>>

DeleteNode ==
    \E outcome \in LockNodeOutcomes :
        /\ SceneCall("delete_node",
                     delete_node(World, module, self_name, outcome))
        /\ UNCHANGED <<self_name, text, digits, value>>

RenameNode ==
    \E new_name \in NewNames :
        LET outcome == rename_node(World, self_name, new_name)
        IN /\ SceneCall("rename_node", outcome)
           /\ text' = new_name
           /\ self_name' = outcome.name
           /\ UNCHANGED <<digits, value>>

NodeIncrementDigit ==
    \E d \in NodeDigitsArguments :
        LET outcome == Node_increment_digit(World, self_name, d)
        IN /\ module = "node"
           /\ SceneCall("Node.increment_digit", outcome)
           /\ digits' = d
           /\ self_name' = outcome.name
           /\ UNCHANGED <<text, value>>

NodeDecrementDigit ==
    LET outcome == Node_decrement_digit(World, self_name)
    IN /\ module = "node"
       /\ SceneCall("Node.decrement_digit", outcome)
       /\ self_name' = outcome.name
       /\ UNCHANGED <<text, digits, value>>

SetDefaultValue ==
    \E v \in DefaultValues :
        /\ SceneCall("set_default_value", set_default_value(World, Plug, v))
        /\ value' = v
        /\ UNCHANGED <<self_name, text, digits>>

NextScene ==
    \/ LockNode
    \/ DeleteNode
    \/ RenameNode
    \/ NodeIncrementDigit
    \/ NodeDecrementDigit
    \/ SetDefaultValue

SpecScene == InitScene /\ [][NextScene]_vars

(***************************************************************************)
(* Properties.                                                             *)
(***************************************************************************)
\* an identifier: ASCII letters, digits, '_' and '-'
IsIdentifier(t) ==
    \A i \in 1..Len(t) :
        IsAlpha(t[i]) \/ IsDigit(t[i]) \/ t[i] \in {ord("_"), ord("-")}

\* a non-empty str of upper-case letters only or of lower-case letters only
UniformLetters(t) ==
    /\ t # <<>>
    /\ \/ \A i \in 1..Len(t) : IsUpper(t[i])
       \/ \A i \in 1..Len(t) : IsLower(t[i])

\* how many characters at the end of t are equal to c
TrailingCount(t, c) ==
    LET from == {i \in 1..(Len(t) + 1) : \A j \in i..Len(t) : t[j] = c}
    IN Len(t) + 1 - (CHOOSE i \in from : \A j \in from : i <= j)

\* the str of n copies of the character c
Repeat(c, n) == [i \in 1..n |-> c]

\* C1: to_camel_case and to_pascal_case are idempotent on every identifier
\* whose tokenization is not empty: converting the result of the call again
\* returns that same result.
CamelPascalIdempotent ==
    /\ (op = "to_camel_case" /\ IsIdentifier(text) /\ split_text(text) # <<>>)
          => to_camel_case(result.value) = result
    /\ (op = "to_pascal_case" /\ IsIdentifier(text) /\ split_text(text) # <<>>)
          => to_pascal_case(result.value) = result

\* C2: to_snake_case and to_kebab_case are idempotent on every identifier:
\* converting the result of the call again returns that same result.
SnakeKebabIdempotent ==
    /\ (op = "to_snake_case" /\ IsIdentifier(text))
          => to_snake_case(result.value, FALSE) = result
    /\ (op = "to_kebab_case" /\ IsIdentifier(text))
          => to_kebab_case(result.value, FALSE) = result

\* a snake_case conversion that changed a text of several tokens
SnakeKebabIdempotentWitness ==
    /\ op = "to_snake_case"
    /\ text = Str(<<"a", "B", "a", "1">>)
    /\ result = Ret(Str(<<"a", "_", "b", "a", "_", "1">>))

\* the text of the value decodes to a number equal to the value
DecodesBack ==
    /\ result.raised = "none"
    /\ convert_text_to_value(result.value).raised = "none"
    /\ NumEq(convert_text_to_value(result.value).value, value)

\* C3 as stated: the text of every number without exponent, integer or
\* decimal, positive, zero or negative, decodes to that number.
CodecRoundTrip == op = "convert_value_to_text" => DecodesBack

\* C3 amended: the text of every finite decimal and of every integer of
\* magnitude at most 2**53 decodes to that number.
CodecRoundTripUpTo2Pow53 ==
    (/\ op = "convert_value_to_text"
     /\ value.type = "int" => DigitsGE(TwoPow53, value.ip))
        => DecodesBack

\* -0.99 was encoded as 'M0d99'
CodecRoundTripWitness ==
    /\ op = "convert_value_to_text"
    /\ value = PyFloat(TRUE, Str(<<"0">>), Str(<<"9", "9">>))
    /\ result = Ret(Str(<<"M", "0", "d", "9", "9">>))

\* C4: on a non-empty str of letters of one case that is not made of end
\* characters only, decrement_character undoes increment_character.
DecrementUndoesIncrement ==
    (/\ op = "increment_character"
     /\ UniformLetters(text)
     /\ TrailingCount(text, IF IsUpper(text[1]) THEN ord("Z") ELSE ord("z"))
          < Len(text))
        => /\ result.raised = "none"
           /\ decrement_character(result.value) = Ret(text)

\* an increment that carried over two end characters
DecrementUndoesIncrementWitness ==
    /\ op = "increment_character"
    /\ text = Str(<<"a", "z", "z">>)
    /\ result = Ret(Str(<<"b", "a", "a">>))

\* the digit run a text ends in: position (1-based) of its first character,
\* Len(t) + 1 when the last character of t is not a digit
DigitSuffixStart(t) ==
    LET from == {i \in 1..(Len(t) + 1) : \A j \in i..Len(t) : IsDigit(t[j])}
    IN CHOOSE i \in from : \A j \in from : i <= j

HasDigitSuffix(t) == DigitSuffixStart(t) <= Len(t)
DigitSuffix(t) == SubSeq(t, DigitSuffixStart(t), Len(t))
BeforeDigitSuffix(t) == SubSeq(t, 1, DigitSuffixStart(t) - 1)

\* the decimal digits of n, left-filled with '0' up to width characters
ZeroFilled(n, width) ==
    LET ds == str(n)
        zeros == IF width > Len(ds) THEN width - Len(ds) ELSE 0
    IN [i \in 1..(zeros + Len(ds)) |->
            IF i <= zeros THEN ord("0") ELSE ds[i - zeros]]

\* the call incremented, with the default padding, a digit run of width w
\* whose value plus one still fits in w digits
IncrementedWithoutCarry ==
    /\ op = "increment_digit"
    /\ digits = None
    /\ HasDigitSuffix(text)
    /\ Len(str(int(DigitSuffix(text)) + 1)) <= Len(DigitSuffix(text))

\* C5 as stated: without a carry past the width of the run, increment_digit
\* with the default padding returns the prefix followed by value + 1
\* zero-filled to exactly the width of the run.
IncrementKeepsWidth ==
    IncrementedWithoutCarry
        => result = Ret(BeforeDigitSuffix(text)
                          \o ZeroFilled(int(DigitSuffix(text)) + 1,
                                        Len(DigitSuffix(text))))

\* C5 amended: without a carry past the width of the run, increment_digit
\* with the default padding returns the prefix followed by value + 1
\* zero-filled to 2 digits; the run keeps its width only if the width is 2,
\* or is larger and value + 1 has as many digits as the run.
IncrementPadsToDefault ==
    IncrementedWithoutCarry
        => /\ result = Ret(BeforeDigitSuffix(text)
                             \o ZeroFilled(int(DigitSuffix(text)) + 1, 2))
           /\ Len(result.value) = Len(text)
                <=> \/ Len(DigitSuffix(text)) = 2
                    \/ /\ Len(DigitSuffix(text)) > 2
                       /\ Len(str(int(DigitSuffix(text)) + 1))
                            = Len(DigitSuffix(text))

\* a zero-filled run of width 3 came back with width 2
IncrementPadsToDefaultWitness ==
    /\ op = "increment_digit"
    /\ digits = None
    /\ text = Str(<<"a", "0", "0", "1">>)
    /\ result = Ret(Str(<<"a", "0", "2">>))

\* what the padding rule gives for a padding of width characters
PaddedIncrement(width) ==
    IF HasDigitSuffix(text)
    THEN BeforeDigitSuffix(text)
            \o ZeroFilled(int(DigitSuffix(text)) + 1, width)
    ELSE text \o ZeroFilled(1, width)

\* C6 as stated: increment_digit pads '1', or the value of the trailing run
\* plus one, with zeros on the left to at least `digits` characters, and to
\* 2 characters when digits is None.
IncrementPadsToDigits ==
    op = "increment_digit"
        => result = Ret(PaddedIncrement(IF digits = None THEN 2
                                        ELSE digits[1]))

\* C6 amended: increment_digit pads '1', or the value of the trailing run
\* plus one, with zeros on the left to at least `digits` characters, and to
\* 2 characters when digits is None or 0.
IncrementPadsToDigitsOrDefault ==
    op = "increment_digit"
        => result = Ret(PaddedIncrement(IF digits = None \/ digits[1] = 0
                                        THEN 2 ELSE digits[1]))

\* a run of width 2 was padded to the 4 characters asked for
IncrementPadsToDigitsWitness ==
    /\ op = "increment_digit"
    /\ digits = Some(4)
    /\ text = Str(<<"a", "_", "1", "9">>)
    /\ result = Ret(Str(<<"a", "_", "0", "0", "2", "0">>))

\* C7: decrement_digit removes a trailing run of value 0 or 1, otherwise
\* writes value - 1 zero-filled to the width of the run, which leaves the
\* length of the text unchanged; a text that does not end in a digit is
\* returned unchanged; no error is raised.
DecrementDigitRule ==
    op = "decrement_digit"
        => /\ result.raised = "none"
           /\ IF ~HasDigitSuffix(text) THEN result.value = text
              ELSE IF int(DigitSuffix(text)) \in {0, 1}
              THEN result.value = BeforeDigitSuffix(text)
              ELSE /\ result.value
                        = BeforeDigitSuffix(text)
                            \o ZeroFilled(int(DigitSuffix(text)) - 1,
                                          Len(DigitSuffix(text)))
                   /\ Len(result.value) = Len(text)

\* a decrement that borrowed and kept the width: 'a10' -> 'a09'
DecrementDigitRuleWitness ==
    /\ op = "decrement_digit"
    /\ text = Str(<<"a", "1", "0">>)
    /\ result = Ret(Str(<<"a", "0", "9">>))

\* the start and the end character of the case of the first character
StartOf(t) == IF IsUpper(t[1]) THEN ord("A") ELSE ord("a")
EndOf(t) == IF IsUpper(t[1]) THEN ord("Z") ELSE ord("z")

\* C8: increment_character gives the spreadsheet-column successor of a
\* non-empty str of letters of one case: trailing end characters become
\* the start character, the character before them advances by one letter,
\* the characters left of it are unchanged; the length grows by one, a
\* start character being prepended, exactly when every character was the
\* end character.
IncrementIsSuccessor ==
    (op = "increment_character" /\ UniformLetters(text))
        => LET n == Len(text)
               k == TrailingCount(text, EndOf(text))
               r == result.value
           IN /\ result.raised = "none"
              /\ IsAlpha(r[1]) /\ UniformLetters(r)
              /\ Len(r) = n + 1 <=> k = n
              /\ Len(r) = n <=> k < n
              /\ k = n => r = Repeat(StartOf(text), n + 1)
              /\ k < n => r = [i \in 1..n |->
                                  IF i < n - k THEN text[i]
                                  ELSE IF i = n - k THEN text[i] + 1
                                  ELSE StartOf(text)]

\* 'AZ' -> 'BA'
IncrementIsSuccessorWitness ==
    /\ op = "increment_character"
    /\ text = Str(<<"A", "Z">>)
    /\ result = Ret(Str(<<"B", "A">>))

\* C9: decrement_character mirrors the increment on a non-empty str of
\* letters of one case: trailing start characters become the end
\* character, the character before them goes back by one letter, the
\* characters left of it are unchanged; when every character was the start
\* character the first one is dropped, so that the length shrinks by one
\* and a single start character gives the empty str.
DecrementIsPredecessor ==
    (op = "decrement_character" /\ UniformLetters(text))
        => LET n == Len(text)
               k == TrailingCount(text, StartOf(text))
               r == result.value
           IN /\ result.raised = "none"
              /\ k = n => r = Repeat(EndOf(text), n - 1)
              /\ k < n => r = [i \in 1..n |->
                                  IF i < n - k THEN text[i]
                                  ELSE IF i = n - k THEN text[i] - 1
                                  ELSE EndOf(text)]
              /\ (n = 1 /\ k = 1) => r = <<>>

\* 'aaa' -> 'zz'
DecrementIsPredecessorWitness ==
    /\ op = "decrement_character"
    /\ text = Str(<<"a", "a", "a">>)
    /\ result = Ret(Str(<<"z", "z">>))

\* the text is made of the start character of its case only, or is a
\* single letter
AllStartOrSingle(t) ==
    /\ UniformLetters(t)
    /\ \/ Len(t) = 1
       \/ \A i \in 1..Len(t) : t[i] = StartOf(t)

\* C10 as stated: decrement_character returns the empty str, and raises
\* no error, on a text of start characters only and on every text of a
\* single character (here: a single letter).
DecrementGivesEmpty ==
    (op = "decrement_character" /\ AllStartOrSingle(text))
        => result = Ret(<<>>)

\* C10 amended: decrement_character raises no error on a text of start
\* characters only and on every text of a single letter, and returns the
\* empty str exactly when the text is a single start character.
DecrementGivesEmptyOnSingleStart ==
    (op = "decrement_character" /\ AllStartOrSingle(text))
        => /\ result.raised = "none"
           /\ result.value = <<>>
                <=> text \in {Str(<<"A">>), Str(<<"a">>)}

\* 'AA' -> 'Z', not the empty str
DecrementGivesEmptyWitness ==
    /\ op = "decrement_character"
    /\ text = Str(<<"A", "A">>)
    /\ result = Ret(Str(<<"Z">>))

\* the tags of the style predicates that accept the text
MatchedStyles(t) ==
    {tag \in {"camelCase", "PascalCase", "snake_case", "kebab-case"} :
        \/ tag = "camelCase" /\ is_camel_case(t)
        \/ tag = "PascalCase" /\ is_pascal_case(t)
        \/ tag = "snake_case" /\ is_snake_case(t)
        \/ tag = "kebab-case" /\ is_kebab_case(t)}

\* a single word of lower-case letters
IsLowerWord(t) == t # <<>> /\ \A i \in 1..Len(t) : IsLower(t[i])

\* C11 as stated: no text satisfies two of the four style predicates,
\* get_case_style returns the tag of the grammar the text matches and
\* 'unknown' when it matches none, and a single all-lowercase word matches
\* the snake_case grammar only and is tagged 'snake_case'.
StylesExclusive ==
    op = "get_case_style"
        => /\ Cardinality(MatchedStyles(text)) <= 1
           /\ \A tag \in MatchedStyles(text) : result = Ret(tag)
           /\ MatchedStyles(text) = {} => result = Ret("unknown")
           /\ IsLowerWord(text) => /\ MatchedStyles(text) = {"snake_case"}
                                   /\ result = Ret("snake_case")

\* C11 amended: only a single all-lowercase word satisfies more than one
\* style predicate: it matches the camelCase, snake_case and kebab-case
\* grammars and is tagged 'camelCase'; every other text matches at most one
\* grammar and get_case_style returns that grammar's tag, 'unknown' when it
\* matches none.
StylesExclusiveButLowerWord ==
    op = "get_case_style"
        => IF IsLowerWord(text)
           THEN /\ MatchedStyles(text)
                     = {"camelCase", "snake_case", "kebab-case"}
                /\ result = Ret("camelCase")
           ELSE /\ Cardinality(MatchedStyles(text)) <= 1
                /\ \A tag \in MatchedStyles(text) : result = Ret(tag)
                /\ MatchedStyles(text) = {} => result = Ret("unknown")

\* the word 'aa' was tagged 'camelCase'
StylesExclusiveWitness ==
    /\ op = "get_case_style"
    /\ text = Str(<<"a", "a">>)
    /\ result = Ret("camelCase")

\* C12: get_case_style returns the tag of the first grammar that matches in
\* the order camelCase, PascalCase, snake_case, kebab-case; it never raises
\* and always returns one of the five tags.
FirstStyleWins ==
    op = "get_case_style"
        => /\ result.raised = "none"
           /\ result.value \in {"camelCase", "PascalCase", "snake_case",
                                "kebab-case", "unknown"}
           /\ is_camel_case(text) => result.value = "camelCase"
           /\ (~is_camel_case(text) /\ is_pascal_case(text))
                => result.value = "PascalCase"
           /\ (/\ ~is_camel_case(text) /\ ~is_pascal_case(text)
               /\ is_snake_case(text))
                => result.value = "snake_case"
           /\ (/\ ~is_camel_case(text) /\ ~is_pascal_case(text)
               /\ ~is_snake_case(text) /\ is_kebab_case(text))
                => result.value = "kebab-case"
           /\ MatchedStyles(text) = {} => result.value = "unknown"

\* 'a' matches the camelCase and the snake_case grammar: the first one won
FirstStyleWinsWitness ==
    /\ op = "get_case_style"
    /\ text = Str(<<"a">>)
    /\ is_snake_case(text)
    /\ result = Ret("camelCase")

\* two upper-case letters in a row
HasCapitalRun(t) ==
    \E i \in 1..(Len(t) - 1) : IsUpper(t[i]) /\ IsUpper(t[i + 1])

\* letters and digits only
IsAlphaNumeric(t) == \A i \in 1..Len(t) : IsAlpha(t[i]) \/ IsDigit(t[i])

\* C13 as stated: every identifier with two or more upper-case letters in
\* a row is classified 'unknown'.
CapitalRunIsUnknown ==
    (op = "get_case_style" /\ IsIdentifier(text) /\ HasCapitalRun(text))
        => result = Ret("unknown")

\* C13 amended: an identifier with two or more upper-case letters in a row
\* is classified 'PascalCase' when it has letters and digits only and
\* starts with an upper-case letter, 'camelCase' when it has letters and
\* digits only, starts with a lower-case letter and has no digit before
\* its first upper-case letter, and 'unknown' otherwise.
CapitalRunIsStillAWord ==
    (op = "get_case_style" /\ IsIdentifier(text) /\ HasCapitalRun(text))
        => result
             = IF IsAlphaNumeric(text) /\ IsUpper(text[1])
               THEN Ret("PascalCase")
               ELSE IF /\ IsAlphaNumeric(text)
                       /\ IsLower(text[1])
                       /\ \A i \in 1..Len(text) :
                             IsDigit(text[i])
                                => \E j \in 1..(i - 1) : IsUpper(text[j])
               THEN Ret("camelCase")
               ELSE Ret("unknown")

\* 'aAB' was tagged 'camelCase'
CapitalRunWitness ==
    /\ op = "get_case_style"
    /\ text = Str(<<"a", "A", "B">>)
    /\ result = Ret("camelCase")

\* the concatenation of the words
RECURSIVE Concat(_)
Concat(words) ==
    IF words = <<>> THEN <<>> ELSE words[1] \o Concat(Tail(words))

\* the word with its first character in upper case
UpperFirst(w) ==
    [i \in 1..Len(w) |-> IF i = 1 /\ IsLower(w[i]) THEN w[i] - 32 ELSE w[i]]

\* C14 as stated: to_camel_case returns the first token in lower case
\* followed by every other token with its first character in upper case
\* and the rest of the token as the tokenizer gave it.
CamelKeepsTokenCase ==
    (op = "to_camel_case" /\ split_text(text) # <<>>)
        => LET tokens == split_text(text)
           IN result = Ret(lower(tokens[1])
                             \o Concat([i \in 1..(Len(tokens) - 1) |->
                                           UpperFirst(tokens[i + 1])]))

\* C14 amended: to_camel_case returns the first token in lower case
\* followed by every other token with its first character in upper case
\* and the rest of the token in lower case.
CamelLowersTokenRest ==
    (op = "to_camel_case" /\ split_text(text) # <<>>)
        => LET tokens == split_text(text)
           IN result = Ret(lower(tokens[1])
                             \o Concat([i \in 1..(Len(tokens) - 1) |->
                                           UpperFirst(lower(tokens[i + 1]))]))

\* 'a_AB' -> 'aAb': the token 'AB' lost its second capital
CamelLowersTokenRestWitness ==
    /\ op = "to_camel_case"
    /\ text = Str(<<"a", "_", "A", "B">>)
    /\ result = Ret(Str(<<"a", "A", "b">>))

\* C15: to_camel_case and to_pascal_case fail with a defined empty-input
\* error on a text without tokens: they neither return nor let the
\* IndexError of the index out of bounds through.
EmptyTokenizationFails ==
    (op \in {"to_camel_case", "to_pascal_case"} /\ split_text(text) = <<>>)
        => result.raised \notin {"none", "IndexError"}

\* the grammar of a value token: an optional leading 'M', then digits with
\* at most one 'd' among them
WellFormedToken(t) ==
    LET body == IF t # <<>> /\ t[1] = ord("M") THEN Tail(t) ELSE t
    IN /\ \A i \in 1..Len(body) : IsDigit(body[i]) \/ body[i] = ord("d")
       /\ Cardinality({i \in 1..Len(body) : body[i] = ord("d")}) <= 1
       /\ \E i \in 1..Len(body) : IsDigit(body[i])

\* C16: convert_text_to_value fails on every text that violates the
\* grammar of a value token and never returns a number for it.
MalformedTokenFails ==
    (op = "convert_text_to_value" /\ ~WellFormedToken(text))
        => result.raised # "none"

\* C17: get_digit_by_index returns for every text and every index without
\* raising, the empty value exactly when the text has no digit run;
\* get_first_number and get_last_number equal it at the indices 0 and -1.
DigitByIndexIsTotal ==
    /\ op = "get_digit_by_index"
          => /\ result.raised = "none"
             /\ result.value = <<>> <=> get_digits(text) = <<>>
             /\ result.value # <<>>
                  => \E k \in 1..Len(get_digits(text)) :
                        result.value = get_digits(text)[k]
    /\ op = "get_first_number" => result = get_digit_by_index(text, 0)
    /\ op = "get_last_number" => result = get_digit_by_index(text, -1)

\* C18 as stated: split_text returns the empty list for the empty text and
\* a list with a token for every other identifier.
IdentifierHasTokens ==
    (op = "split_text" /\ IsIdentifier(text))
        => (result.value = <<>> <=> text = <<>>)

\* C18 amended: split_text returns the empty list for the empty text and
\* for an identifier made of delimiters only, and a list with a token for
\* every identifier that has a letter or a digit.
IdentifierWithWordHasTokens ==
    (op = "split_text" /\ IsIdentifier(text))
        => (result.value = <<>>
              <=> \A i \in 1..Len(text) : text[i] \in {ord("_"), ord("-")})

\* '-_' has no token
IdentifierWithWordHasTokensWitness ==
    /\ op = "split_text"
    /\ text = Str(<<"-", "_">>)
    /\ result = Ret(<<>>)

\* the words are substrings of t that follow one another, from position
\* `from` on, without overlap
RECURSIVE InOrderIn(_, _, _)
InOrderIn(words, t, from) ==
    \/ words = <<>>
    \/ \E p \in from..(Len(t) - Len(words[1]) + 1) :
          /\ SubSeq(t, p, p + Len(words[1]) - 1) = words[1]
          /\ InOrderIn(Tail(words), t, p + Len(words[1]))

\* C19: every token of split_text is non-empty, made of letters only or of
\* digits only, hence free of '_', '-' and spaces, and the tokens are
\* substrings of the text in left-to-right order without overlap;
\* 'Another_Example-Here99' gives 'Another', 'Example', 'Here', '99'.
TokensAreWords ==
    op = "split_text"
        => /\ \A k \in 1..Len(result.value) :
                 LET token == result.value[k]
                 IN /\ token # <<>>
                    /\ \/ \A i \in 1..Len(token) : IsAlpha(token[i])
                       \/ \A i \in 1..Len(token) : IsDigit(token[i])
           /\ InOrderIn(result.value, text, 1)
           /\ split_text(Str(<<"A", "n", "o", "t", "h", "e", "r", "_",
                               "E", "x", "a", "m", "p", "l", "e", "-",
                               "H", "e", "r", "e", "9", "9">>))
                = <<Str(<<"A", "n", "o", "t", "h", "e", "r">>),
                    Str(<<"E", "x", "a", "m", "p", "l", "e">>),
                    Str(<<"H", "e", "r", "e">>), Str(<<"9", "9">>)>>

\* 'A_B1' gives 'A' and '1': the delimiter is not part of a token
TokensAreWordsWitness ==
    /\ op = "split_text"
    /\ text = Str(<<"A", "_", "B", "1">>)
    /\ result = Ret(<<Str(<<"A">>), Str(<<"1">>)>>)

\* s.split(c) for a character c
RECURSIVE SplitAt(_, _)
SplitAt(s, c) ==
    LET at == {i \in 1..Len(s) : s[i] = c}
    IN IF at = {} THEN <<s>>
       ELSE LET p == CHOOSE i \in at : \A j \in at : i <= j
            IN <<SubSeq(s, 1, p - 1)>> \o SplitAt(SubSeq(s, p + 1, Len(s)), c)

\* the result is the lower-case tokens of the text, in order, joined by c
IsJoinedTokens(c) ==
    LET tokens == split_text(text)
    IN /\ result.raised = "none"
       /\ IF tokens = <<>> THEN result.value = <<>>
          ELSE SplitAt(result.value, c)
                  = [i \in 1..Len(tokens) |-> lower(tokens[i])]

\* C20: to_snake_case and to_kebab_case (delete_numbers false) return the
\* tokens of split_text(text) in lower case and in order, joined by '_' and
\* by '-'; to_snake_case('nameOfVariable') is 'name_of_variable'.
SnakeKebabJoinTokens ==
    /\ (op = "to_snake_case" /\ ~delete_numbers)
          => /\ IsJoinedTokens(ord("_"))
             /\ to_snake_case(Str(<<"n", "a", "m", "e", "O", "f", "V", "a",
                                    "r", "i", "a", "b", "l", "e">>), FALSE)
                  = Ret(Str(<<"n", "a", "m", "e", "_", "o", "f", "_", "v",
                              "a", "r", "i", "a", "b", "l", "e">>))
    /\ (op = "to_kebab_case" /\ ~delete_numbers) => IsJoinedTokens(ord("-"))

\* 'Ba_A' -> 'ba-a'
SnakeKebabJoinTokensWitness ==
    /\ op = "to_kebab_case"
    /\ ~delete_numbers
    /\ text = Str(<<"B", "a", "_", "A">>)
    /\ result = Ret(Str(<<"b", "a", "-", "a">>))

\* the result of a conversion with delete_numbers: no digit, and the
\* separator c neither doubled nor at an end
IsStripped(t, c) ==
    /\ \A i \in 1..Len(t) : ~IsDigit(t[i])
    /\ \A i \in 1..(Len(t) - 1) : ~(t[i] = c /\ t[i + 1] = c)
    /\ t # <<>> => (t[1] # c /\ t[Len(t)] # c)

\* C21: with delete_numbers, to_snake_case(text) is to_snake_case of the
\* single-pass result without its digit runs, and likewise to_kebab_case;
\* the result has no digit and no doubled or trailing separator.
TwoPassDigitStripping ==
    /\ (op = "to_snake_case" /\ delete_numbers)
          => /\ result = to_snake_case(
                    remove_numbers(to_snake_case(text, FALSE).value), FALSE)
             /\ result.raised = "none"
             /\ IsStripped(result.value, ord("_"))
    /\ (op = "to_kebab_case" /\ delete_numbers)
          => /\ result = to_kebab_case(
                    remove_numbers(to_kebab_case(text, FALSE).value), FALSE)
             /\ result.raised = "none"
             /\ IsStripped(result.value, ord("-"))

\* 'a1_2' -> 'a_1_2' -> 'a__' -> 'a'; '1a1B' -> '1_a_1_b' -> '_a__b' -> 'a_b'
TwoPassDigitStrippingWitness ==
    /\ op = "to_snake_case"
    /\ delete_numbers
    /\ text = Str(<<"1", "a", "1", "B">>)
    /\ result = Ret(Str(<<"a", "_", "b">>))

\* C22: the result of convert_value_to_text starts with 'M' exactly for a
\* negative value; the rest is the rendering of the absolute value with
\* 'd' for the decimal point; the result has neither '-' nor '.', and an
\* int renders without a 'd' part.
ValueTextFormat ==
    op = "convert_value_to_text"
        => LET t == result.value
               rest == IF Negative(value) THEN Tail(t) ELSE t
           IN /\ result.raised = "none"
              /\ (t # <<>> /\ t[1] = ord("M")) <=> Negative(value)
              /\ rest = value.ip
                          \o (IF value.type = "float"
                              THEN Str(<<"d">>) \o value.fp ELSE <<>>)
              /\ \A i \in 1..Len(t) : t[i] \notin {ord("-"), ord(".")}
              /\ value.type = "int" => \A i \in 1..Len(t) : t[i] # ord("d")

\* the elements of a finite set of integers in ascending order
RECURSIVE Ascending(_)
Ascending(S) ==
    IF S = {} THEN <<>>
    ELSE LET m == CHOOSE x \in S : \A y \in S : x <= y
         IN <<m>> \o Ascending(S \ {m})

\* position i lies between a '[' and the first ']' that follows that '['
InsideBrackets(t, i) ==
    /\ \E p \in 1..(i - 1) :
          t[p] = ord("[") /\ \A j \in (p + 1)..i : t[j] # ord("]")
    /\ \E q \in (i + 1)..Len(t) : t[q] = ord("]")

\* the digit runs of t that lie inside brackets, from left to right
BracketedDigitRuns(t) ==
    LET starts == {i \in 1..Len(t) :
                      /\ IsDigit(t[i])
                      /\ i = 1 \/ ~IsDigit(t[i - 1])
                      /\ InsideBrackets(t, i)}
        ordered == Ascending(starts)
        last(i) == CHOOSE j \in i..Len(t) :
                      /\ \A k \in i..j : IsDigit(t[k])
                      /\ j = Len(t) \/ ~IsDigit(t[j + 1])
    IN [k \in 1..Len(ordered) |-> SubSeq(t, ordered[k], last(ordered[k]))]

\* C23: get_values_between_brackets returns, from left to right, exactly
\* the digit runs between a '[' and the first ']' after it; a digit run
\* outside brackets is never returned, and the result is empty when no
\* bracketed part has a digit; 'name_[01]_of_[12]_variable_34' gives
\* '01' and '12'.
BracketedRunsOnly ==
    op = "get_values_between_brackets"
        => /\ result = Ret(BracketedDigitRuns(text))
           /\ get_values_between_brackets(
                 Str(<<"n", "a", "m", "e", "_", "[", "0", "1", "]", "_",
                       "o", "f", "_", "[", "1", "2", "]", "_", "v", "a",
                       "r", "i", "a", "b", "l", "e", "_", "3", "4">>))
                = <<Str(<<"0", "1">>), Str(<<"1", "2">>)>>

\* '1[1]' gives the bracketed '1' only
BracketedRunsOnlyWitness ==
    /\ op = "get_values_between_brackets"
    /\ text = Str(<<"1", "[", "1", "]">>)
    /\ result = Ret(<<Str(<<"1">>)>>)

\* C24: for a name with tokens, add_suffix returns to_camel_case(name),
\* the separator and to_camel_case(suffix), and add_prefix returns
\* to_camel_case(prefix), the separator and to_camel_case(name); with the
\* empty suffix or prefix they return the name and the separator without
\* an error.
AffixJoinsCamelCase ==
    LET name == to_camel_case(text).value
        added == IF affix = <<>> THEN <<>> ELSE to_camel_case(affix).value
    IN /\ (op = "add_suffix" /\ split_text(text) # <<>>)
             => result = Ret(name \o separator \o added)
       /\ (op = "add_prefix" /\ split_text(text) # <<>>)
             => result = Ret(added \o separator \o name)

\* the delimiters of an identifier: '_', '-' and the space
IsDelimiter(c) == c \in {ord("_"), ord("-"), ord(" ")}

\* C28: split_text loses no letter and no digit: for a text of letters,
\* digits and delimiters, the tokens put together are the text without its
\* delimiters.
SplitLosesNothing ==
    (op = "split_text"
        /\ \A i \in 1..Len(text) :
              IsAlpha(text[i]) \/ IsDigit(text[i]) \/ IsDelimiter(text[i]))
        => Concat(result.value) = SelectSeq(text, LAMBDA c : ~IsDelimiter(c))

\* an identifier with tokens, the first of them made of letters
StartsWithWord(t) ==
    /\ IsIdentifier(t)
    /\ split_text(t) # <<>>
    /\ \A i \in 1..Len(split_text(t)[1]) : IsAlpha(split_text(t)[1][i])

\* C29: the result of each converter (delete_numbers false) is accepted by
\* the predicate of its style, for every identifier with tokens whose first
\* token is alphabetic.
ConvertedIsOfStyle ==
    StartsWithWord(text)
        => /\ op = "to_camel_case" => is_camel_case(result.value)
           /\ op = "to_pascal_case" => is_pascal_case(result.value)
           /\ (op = "to_snake_case" /\ ~delete_numbers)
                 => is_snake_case(result.value)
           /\ (op = "to_kebab_case" /\ ~delete_numbers)
                 => is_kebab_case(result.value)

\* an application that changes the text keeps what is before the trailing
\* digit run and either removes the run or lowers its value at the same
\* width; a text without a trailing digit run is returned unchanged
DecrementStep ==
    /\ ~HasDigitSuffix(text) => text' = text
    /\ text' # text
          => /\ BeforeDigitSuffix(text') = BeforeDigitSuffix(text)
             /\ \/ ~HasDigitSuffix(text')
                \/ /\ Len(DigitSuffix(text')) = Len(DigitSuffix(text))
                   /\ int(DigitSuffix(text')) < int(DigitSuffix(text))

\* C30: decrement_digit applied again and again reaches a text without a
\* trailing digit run, which every further application returns unchanged;
\* every application that changes the text lowers the value of the run at
\* the same width or removes the run, and keeps what is before the run.
RepeatedDecrementStops ==
    /\ <>[](~HasDigitSuffix(text))
    /\ [][DecrementStep]_vars

\* 'a10' has become 'a08', with the width kept
RepeatedDecrementStopsWitness ==
    /\ op = "decrement_digit"
    /\ text = Str(<<"a", "0", "8">>)
    /\ result = Ret(text)

\* a cmds call that asks about the scene and changes nothing
IsQuery(c) ==
    c.cmd \in {"objExists", "attributeQuery", "getAttr"} \/ c.flag = "query"

\* the places of the calls of a command with a flag among the calls made
IssuedAt(cs, cmd, flag) ==
    {i \in 1..Len(cs) : cs[i].cmd = cmd /\ cs[i].flag = flag}

\* the step of a delete_node call
DeleteNodeStep ==
    op' = "delete_node" =>
        IF scene_node = Some(self_name)
        THEN /\ result'.raised = "none"
             /\ result'.value = TRUE
             /\ scene_node' = None
             /\ node_locked =>
                    \E i \in IssuedAt(commands', "lockNode", "unlock"),
                       j \in IssuedAt(commands', "delete", "") : i < j
             /\ \A j \in IssuedAt(commands', "delete", "") :
                    ~commands'[j].locked
        ELSE /\ result'.raised = "none"
             /\ result'.value = FALSE
             /\ \A i \in 1..Len(commands') :
                    commands'[i].cmd \notin {"lockNode", "delete"}

\* C25: delete_node on an existing node returns True and leaves no node,
\* locked or not: a locked node is unlocked before the delete command, which
\* is never issued on a locked node; on a node that does not exist it
\* returns False and issues neither a lock nor a delete command.
DeleteNodeUnlocksFirst == [][DeleteNodeStep]_vars

\* the step of a set_default_value call
SetDefaultValueStep ==
    op' = "set_default_value" =>
        LET writes == IssuedAt(commands', "addAttr", "defaultValue")
                          \cup IssuedAt(commands', "setAttr", "value")
        IN IF attribute.exists
           THEN /\ attribute'.locked <=> attribute.locked
                /\ IssuedAt(commands', "addAttr", "defaultValue") # {}
                /\ IssuedAt(commands', "setAttr", "value") # {}
                /\ \A i \in writes : ~commands'[i].locked
                /\ result'.raised = "none"
                /\ result'.value = TRUE
           ELSE /\ result'.raised = "none"
                /\ result'.value = FALSE
                /\ \A i \in 1..Len(commands') :
                       commands'[i].cmd \notin {"addAttr", "setAttr"}

IsRenameCall(name) ==
    name \in {"rename_node", "Node.increment_digit", "Node.decrement_digit"}

\* the name a rename call computes, in the step of the call
ComputedName ==
    CASE op' = "rename_node" -> text'
      [] op' = "Node.increment_digit" ->
             increment_digit(self_name, digits').value
      [] OTHER -> decrement_digit(self_name).value

\* the call issued one rename, from the old name to the computed one
OneRename ==
    LET renames == IssuedAt(commands', "rename", "")
    IN /\ Cardinality(renames) = 1
       /\ \A i \in renames : /\ commands'[i].target = self_name
                             /\ commands'[i].arg = ComputedName

\* the call returned None, changed nothing in the scene and kept self.name
NothingRenamed ==
    /\ result'.raised = "none"
    /\ result'.value = None
    /\ \A i \in 1..Len(commands') : IsQuery(commands'[i])
    /\ self_name' = self_name

\* the call set self.name to the computed name and returned it
NameFollows ==
    /\ self_name' = ComputedName
    /\ result'.raised = "none"
    /\ result'.value = Some(ComputedName)

\* the step of a rename call
RenameStep ==
    IsRenameCall(op') =>
        IF scene_node = Some(self_name)
        THEN OneRename /\ NameFollows
        ELSE NothingRenamed

RenameOrRefusedStep ==
    IsRenameCall(op') =>
        IF scene_node = Some(self_name)
        THEN /\ OneRename
             /\ IF node_locked
                THEN /\ result'.raised = "RuntimeError"
                     /\ self_name' = self_name
                     /\ scene_node' = scene_node
                ELSE /\ NameFollows
                     /\ scene_node' = Some(ComputedName)
        ELSE NothingRenamed

====
